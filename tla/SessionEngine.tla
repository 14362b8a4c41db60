--------------------------- MODULE SessionEngine ---------------------------
(***************************************************************************)
(* The session engine and the tasks that share it (engine.rs; the calling  *)
(* tasks are session_ui.rs and the FFI's SessionHandle).                   *)
(*                                                                         *)
(* One pump task feeds output frames: the adapter turns a frame into edits *)
(* of the block log, each broadcast while the log is locked; then the      *)
(* vt100 screen processes the frame.  Each renderer subscribes, draws,     *)
(* waits for an event, takes a fresh snapshot, and draws again.            *)
(*                                                                         *)
(* The log and the screen are represented by their versions: how many      *)
(* edits the log has had and how many frames the screen has processed.     *)
(* The broadcast channel is tokio's: it keeps the last Capacity events; a  *)
(* receiver that fell further behind gets Lagged once and continues with   *)
(* the oldest event kept.                                                  *)
(***************************************************************************)
EXTENDS Integers

CONSTANTS Reader,       \* renderers: structured views, FFI observers
          Feeder,       \* the pump task, as holder of the log's lock
          NoOne,        \* the log's lock is free
          Capacity,     \* EVENT_CAPACITY
          MaxFrames,    \* bound on the frames received
          MaxEdits      \* bound on the edits of the log

ASSUME TaskAssumption ==
  Feeder \notin Reader /\ NoOne \notin Reader /\ Feeder # NoOne
ASSUME CapacityAssumption == Capacity \in Nat \ {0}

VARIABLES pump,         \* where the pump task is
          frames,       \* frames the pump has taken from the socket
          log,          \* version of the block log
          log_lock,     \* holder of the log's mutex
          tail,         \* events sent on the broadcast channel
          screen,       \* frames the vt100 screen has processed
          pc,           \* where each renderer is
          rx,           \* each renderer's position in the channel, or Unsubscribed
          blocks,       \* version of the snapshot each renderer holds
          drawn         \* what each renderer last drew

feeding == <<pump, frames, log, tail, screen>>
reading == <<pc, rx, blocks, drawn>>
vars == <<feeding, log_lock, reading>>

Unsubscribed == -1
Blank == [blocks |-> 0, screen |-> 0]

Init ==
  /\ pump = "idle"
  /\ frames = 0
  /\ log = 0
  /\ log_lock = NoOne
  /\ tail = 0
  /\ screen = 0
  /\ pc = [r \in Reader |-> "new"]
  /\ rx = [r \in Reader |-> Unsubscribed]
  /\ blocks = [r \in Reader |-> 0]
  /\ drawn = [r \in Reader |-> Blank]

-----------------------------------------------------------------------------
(***************************************************************************)
(* The pump: transport::run calls feed_output for each frame, and finish   *)
(* once the socket or the input has ended.                                 *)
(***************************************************************************)
FeedOutput ==
  /\ pump = "idle"
  /\ frames < MaxFrames
  /\ frames' = frames + 1
  /\ pump' = "feed"
  /\ UNCHANGED <<log, tail, screen, log_lock, reading>>

(* EngineSink: lock the log and edit it ...                                *)
SinkMutate ==
  /\ pump \in {"feed", "flush"}
  /\ log_lock = NoOne
  /\ log < MaxEdits
  /\ log_lock' = Feeder
  /\ log' = log + 1
  /\ UNCHANGED <<pump, frames, tail, screen, reading>>

(* ... broadcast the event, still holding the lock.  A send that finds no  *)
(* receiver stores nothing; its error is ignored.                          *)
SinkSend ==
  /\ log_lock = Feeder
  /\ log_lock' = NoOne
  /\ tail' = IF \E r \in Reader : rx[r] # Unsubscribed THEN tail + 1 ELSE tail
  /\ UNCHANGED <<pump, frames, log, screen, reading>>

AdapterReturns ==
  /\ pump = "feed"
  /\ log_lock # Feeder
  /\ pump' = "screen"
  /\ UNCHANGED <<frames, log, tail, screen, log_lock, reading>>

ScreenProcess_Twice ==
  /\ pump = "screen"
  /\ screen' = screen + 1
  /\ pump' \in {"screen", "idle"}
  /\ UNCHANGED <<frames, log, tail, log_lock, reading>>

ScreenProcess ==
  /\ pump = "screen"
  /\ screen' = screen + 1
  /\ pump' = "idle"
  /\ UNCHANGED <<frames, log, tail, log_lock, reading>>

Finish ==
  /\ pump = "idle"
  /\ pump' = "flush"
  /\ UNCHANGED <<frames, log, tail, screen, log_lock, reading>>

FlushReturns ==
  /\ pump = "flush"
  /\ log_lock # Feeder
  /\ pump' = "done"
  /\ UNCHANGED <<frames, log, tail, screen, log_lock, reading>>

(* SessionHandle::close aborts the pump task at an await point: between    *)
(* two frames, and without finish.                                         *)
AbortPump ==
  /\ pump = "idle"
  /\ pump' = "done"
  /\ UNCHANGED <<frames, log, tail, screen, log_lock, reading>>

-----------------------------------------------------------------------------
(***************************************************************************)
(* A renderer.  subscribe holds the log's lock across the creation of the  *)
(* receiver and the snapshot.                                              *)
(***************************************************************************)
Subscribe(r) ==
  /\ pc[r] = "new"
  /\ log_lock = NoOne
  /\ log_lock' = r
  /\ rx' = [rx EXCEPT ![r] = tail]
  /\ pc' = [pc EXCEPT ![r] = "subscribing"]
  /\ UNCHANGED <<feeding, blocks, drawn>>

SubscribeSnapshot_StartsEmpty(r) ==
  /\ pc[r] = "subscribing"
  /\ blocks' = [blocks EXCEPT ![r] = 0]
  /\ log_lock' = NoOne
  /\ pc' = [pc EXCEPT ![r] = "draw"]
  /\ UNCHANGED <<feeding, rx, drawn>>

SubscribeSnapshot(r) ==
  /\ pc[r] = "subscribing"
  /\ blocks' = [blocks EXCEPT ![r] = log]
  /\ log_lock' = NoOne
  /\ pc' = [pc EXCEPT ![r] = "draw"]
  /\ UNCHANGED <<feeding, rx, drawn>>

Draw(r) ==
  /\ pc[r] = "draw"
  /\ drawn' = [drawn EXCEPT ![r] = [blocks |-> blocks[r], screen |-> screen]]
  /\ pc' = [pc EXCEPT ![r] = "wait"]
  /\ UNCHANGED <<feeding, log_lock, rx, blocks>>

Recv_IgnoresLag(r) ==
  /\ pc[r] = "wait"
  /\ rx[r] # tail
  /\ rx' = [rx EXCEPT ![r] = IF tail - @ > Capacity THEN tail - Capacity ELSE @ + 1]
  /\ pc' = [pc EXCEPT ![r] = IF tail - rx[r] > Capacity THEN "wait" ELSE "resync"]
  /\ UNCHANGED <<feeding, log_lock, blocks, drawn>>

Recv_LagToEnd(r) ==
  /\ pc[r] = "wait"
  /\ rx[r] # tail
  /\ rx' = [rx EXCEPT ![r] = tail]
  /\ pc' = [pc EXCEPT ![r] = IF tail - rx[r] > Capacity THEN "wait" ELSE "resync"]
  /\ UNCHANGED <<feeding, log_lock, blocks, drawn>>

(* rx.recv() is ready: an event, or Lagged.  Either way the renderer only  *)
(* learns that something changed.                                          *)
Recv(r) ==
  /\ pc[r] = "wait"
  /\ rx[r] # tail
  /\ rx' = [rx EXCEPT ![r] = IF tail - @ > Capacity THEN tail - Capacity ELSE @ + 1]
  /\ pc' = [pc EXCEPT ![r] = "resync"]
  /\ UNCHANGED <<feeding, log_lock, blocks, drawn>>

Resync_ReplaysOne(r) ==
  /\ pc[r] = "resync"
  /\ blocks' = [blocks EXCEPT ![r] = @ + 1]
  /\ pc' = [pc EXCEPT ![r] = "draw"]
  /\ UNCHANGED <<feeding, log_lock, rx, drawn>>

Resync_NoRedraw(r) ==
  /\ pc[r] = "resync"
  /\ log_lock = NoOne
  /\ blocks' = [blocks EXCEPT ![r] = log]
  /\ pc' = [pc EXCEPT ![r] = "wait"]
  /\ UNCHANGED <<feeding, log_lock, rx, drawn>>

Resync(r) ==
  /\ pc[r] = "resync"
  /\ log_lock = NoOne
  /\ blocks' = [blocks EXCEPT ![r] = log]
  /\ pc' = [pc EXCEPT ![r] = "draw"]
  /\ UNCHANGED <<feeding, log_lock, rx, drawn>>

(* A key was pressed, the window resized: draw again what is held.         *)
Key(r) ==
  /\ pc[r] = "wait"
  /\ pc' = [pc EXCEPT ![r] = "draw"]
  /\ UNCHANGED <<feeding, log_lock, rx, blocks, drawn>>

(* The user flips to Raw or quits, an FFI observer is replaced: the        *)
(* receiver is dropped.  The renderer may subscribe anew.                  *)
Leave(r) ==
  /\ pc[r] = "wait"
  /\ rx' = [rx EXCEPT ![r] = Unsubscribed]
  /\ pc' = [pc EXCEPT ![r] = "new"]
  /\ UNCHANGED <<feeding, log_lock, blocks, drawn>>

-----------------------------------------------------------------------------
Pump ==
  \/ FeedOutput \/ SinkMutate \/ SinkSend \/ AdapterReturns \/ ScreenProcess
  \/ Finish \/ FlushReturns \/ AbortPump

Render(r) ==
  \/ Subscribe(r) \/ SubscribeSnapshot(r) \/ Draw(r) \/ Recv(r) \/ Resync(r)
  \/ Key(r) \/ Leave(r)

Next == Pump \/ \E r \in Reader : Render(r)

(* A started call runs to its end and a woken task is scheduled.  A        *)
(* renderer that keeps getting keys still receives: select! picks among    *)
(* its ready branches at random.  A lock that others take again and again  *)
(* is granted in the end: nobody holds it for longer than a call.  Nothing *)
(* makes a frame arrive, the session end, or a user press a key, subscribe *)
(* or leave.                                                               *)
Fairness ==
  /\ WF_vars(SinkSend) /\ WF_vars(AdapterReturns) /\ WF_vars(ScreenProcess)
  /\ WF_vars(FlushReturns)
  /\ \A r \in Reader :
       /\ WF_vars(SubscribeSnapshot(r)) /\ WF_vars(Draw(r))
       /\ SF_vars(Recv(r)) /\ SF_vars(Resync(r))

Spec == Init /\ [][Next]_vars
FairSpec == Spec /\ Fairness

-----------------------------------------------------------------------------
(* Types, the states of the two loops (engine.rs:55-70,                    *)
(* session_ui.rs:136-206), and that no frame is processed and no edit      *)
(* announced twice.                                                        *)
TypeOK ==
  /\ pump \in {"idle", "feed", "screen", "flush", "done"}
  /\ frames \in Nat /\ screen \in 0 .. frames
  /\ log \in Nat /\ tail \in 0 .. log
  /\ log_lock \in Reader \cup {Feeder, NoOne}
  /\ pc \in [Reader -> {"new", "subscribing", "draw", "wait", "resync"}]
  /\ rx \in [Reader -> Nat \cup {Unsubscribed}]
  /\ blocks \in [Reader -> Nat]
  /\ drawn \in [Reader -> [blocks : Nat, screen : Nat]]

(* An edit made but not yet broadcast: the lock is still held.             *)
Unsent == IF log_lock = Feeder THEN 1 ELSE 0

Pending(r) == tail - rx[r]

(* "No event slips between them" (engine.rs:94-95): every edit missing     *)
(* from the blocks a renderer holds is announced by an event it has still  *)
(* to receive, except the one being broadcast right now, whether the       *)
(* renderer has just subscribed, lagged behind, or has been running.       *)
NoEventSlips ==
  \A r \in Reader : pc[r] \in {"draw", "wait"} =>
    log - blocks[r] =< Pending(r) + Unsent

(* A renderer asleep with nothing to receive shows the current document.   *)
NoLostWakeup ==
  \A r \in Reader :
    pc[r] = "wait" /\ Pending(r) = 0 /\ log_lock # Feeder
      => drawn[r].blocks = log

(* What a renderer shows never goes back to an older document.             *)
DrawnMonotone ==
  [][\A r \in Reader : drawn'[r].blocks >= drawn[r].blocks
                       /\ drawn'[r].screen >= drawn[r].screen]_vars

(* The engine implements the abstract document.                            *)
Seen ==
  [r \in Reader |-> IF pc[r] \in {"new", "subscribing"} THEN -1 ELSE blocks[r]]

Promise == INSTANCE Document WITH doc <- log, seen <- Seen

ImplementsDocument == Promise!Spec

-----------------------------------------------------------------------------
(* "Full-screen (alt-screen) apps ... Render the faithful vt100 grid"      *)
(* (session_ui.rs:349-351): a renderer that stays would show every frame   *)
(* the screen has processed.                                               *)
ScreenShown ==
  \A r \in Reader : []<>(pc[r] = "new" \/ drawn[r].screen = screen)
=============================================================================
