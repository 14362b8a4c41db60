----------------------------- MODULE MobileSession -----------------------------
(***************************************************************************)
(* An attached session of the mobile app: SessionHandle (dd-client-ffi     *)
(* lib.rs) with its pump and observer task, and the app's SessionModel     *)
(* (SessionModel.swift), whose jobs run one by one on the main actor.      *)
(*                                                                         *)
(* Attaching runs detached.  The pump edits the block log, each edit with  *)
(* its event; the observer task receives events and calls on_changed,      *)
(* which posts a job that reads all blocks again.  The log is represented  *)
(* by its version, as in SessionEngine; an edit and its broadcast are one  *)
(* step, since all that is read here is read under the log's lock.         *)
(*                                                                         *)
(* The variables describe the latest session.  Of an earlier one only a    *)
(* call of on_changed can be left, that was under way when it was closed.  *)
(***************************************************************************)
EXTENDS Transport

CONSTANTS Capacity,     \* EVENT_CAPACITY
          MaxSessions,  \* bound on the sessions attached
          MaxEdits,     \* bound on the edits of a session's log
          MaxTexts      \* bound on the texts the user sends

ASSUME CapacityAssumption == Capacity \in Nat \ {0}

VARIABLES
  session,      \* how many sessions have been attached
  view_mode,    \* SessionHandle.mode
  log,          \* version of the block log
  tail,         \* events sent on the broadcast channel
  flushing,     \* the pump has ended and finish is flushing the adapter
  drain,        \* where the observer task is
  rx,           \* its position in the broadcast channel
  late,         \* on_changed is still running for a closed session
  attach,       \* where the detached attach is
  main,         \* which part of a job the main actor is in
  connecting, connected,
  blocks,       \* what the app shows
  reloads,      \* jobs posted by on_changed
  texts         \* how many texts the user has sent

engine == <<session, view_mode, log, tail, flushing>>
observer == <<drain, rx, late>>
model == <<attach, main, connecting, connected, blocks, reloads, texts>>
vars == <<transport, engine, observer, model>>

NoBlocks == [session |-> 0, version |-> 0]
Blocks == [session |-> session, version |-> log]

Init ==
  /\ TransportInit
  /\ session = 0 /\ view_mode = "Watch" /\ log = 0 /\ tail = 0 /\ flushing = FALSE
  /\ drain = "none" /\ rx = 0 /\ late = FALSE
  /\ attach = "none" /\ main = "idle"
  /\ connecting = FALSE /\ connected = FALSE /\ blocks = NoBlocks
  /\ reloads = 0 /\ texts = 0

-----------------------------------------------------------------------------
(***************************************************************************)
(* Attaching.  The form with the Connect button is shown when the app is   *)
(* not connected, and the button is disabled while it connects.            *)
(***************************************************************************)
Connect ==
  /\ main = "idle" /\ ~connected /\ ~connecting
  /\ session < MaxSessions
  /\ connecting' = TRUE
  /\ attach' = "running"
  /\ UNCHANGED <<transport, engine, observer, main, connected, blocks, reloads, texts>>

(* The handle exists and its pump runs before the model knows of it.       *)
Attached ==
  /\ attach = "running"
  /\ attach' = "attached"
  /\ in_tx' = TRUE /\ inq' = <<>> /\ pump' = "select" /\ outgoing' = <<>>
  /\ wire' = <<>> /\ frames' = 0 /\ queued' = <<>>
  /\ session' = session + 1
  /\ view_mode' = "Watch" /\ log' = 0 /\ tail' = 0 /\ flushing' = FALSE
  /\ UNCHANGED <<observer, main, connecting, connected, blocks, reloads, texts>>

AttachFails ==
  /\ attach = "running"
  /\ attach' = "failed"
  /\ UNCHANGED <<transport, engine, observer, main, connecting, connected, blocks, reloads, texts>>

OnFailed ==
  /\ main = "idle" /\ attach = "failed"
  /\ attach' = "none"
  /\ connecting' = FALSE
  /\ UNCHANGED <<transport, engine, observer, main, connected, blocks, reloads, texts>>

(* onAttached, up to and including subscribe: the observer task starts at  *)
(* the end of the broadcast channel.                                       *)
OnAttached ==
  /\ main = "idle" /\ attach = "attached"
  /\ attach' = "none"
  /\ main' = "attaching"
  /\ drain' = "recv"
  /\ rx' = tail
  /\ UNCHANGED <<transport, engine, late, connecting, connected, blocks, reloads, texts>>

OnAttachedReload_StartsEmpty ==
  /\ main = "attaching"
  /\ main' = "idle"
  /\ connecting' = FALSE /\ connected' = TRUE
  /\ blocks' = [session |-> session, version |-> 0]
  /\ UNCHANGED <<transport, engine, observer, attach, reloads, texts>>

(* ... and its reload.                                                     *)
OnAttachedReload ==
  /\ main = "attaching"
  /\ main' = "idle"
  /\ connecting' = FALSE /\ connected' = TRUE
  /\ blocks' = Blocks
  /\ UNCHANGED <<transport, engine, observer, attach, reloads, texts>>

-----------------------------------------------------------------------------
(***************************************************************************)
(* The pump and the engine.                                                *)
(***************************************************************************)
(* run returned by itself: finish follows.                                 *)
PumpStep ==
  /\ session > 0
  /\ TakeInput \/ Sent \/ SendFails \/ RecvFrame \/ OutputReturns \/ SocketEnds
  /\ flushing' = (pump' \in Ended)
  /\ UNCHANGED <<session, view_mode, log, tail, observer, model>>

Edit ==
  /\ session > 0
  /\ pump = "output" \/ flushing
  /\ log < MaxEdits
  /\ log' = log + 1
  /\ tail' = IF drain = "none" THEN tail ELSE tail + 1
  /\ UNCHANGED <<transport, session, view_mode, flushing, observer, model>>

FinishReturns ==
  /\ flushing
  /\ flushing' = FALSE
  /\ UNCHANGED <<transport, session, view_mode, log, tail, observer, model>>

-----------------------------------------------------------------------------
(***************************************************************************)
(* The observer task.                                                      *)
(***************************************************************************)
Recv_LagToEnd ==
  /\ drain = "recv"
  /\ rx # tail
  /\ rx' = IF tail - rx > Capacity THEN tail ELSE rx + 1
  /\ drain' = IF tail - rx > Capacity THEN "recv" ELSE "call"
  /\ UNCHANGED <<late, transport, engine, model>>

(* An event, or Lagged. *)
Recv ==
  /\ drain = "recv"
  /\ rx # tail
  /\ rx' = IF tail - rx > Capacity THEN tail - Capacity ELSE rx + 1
  /\ drain' = "call"
  /\ UNCHANGED <<late, transport, engine, model>>

OnChanged ==
  /\ drain = "call"
  /\ drain' = "recv"
  /\ reloads' = reloads + 1
  /\ UNCHANGED <<rx, late, transport, engine>>
  /\ UNCHANGED <<attach, main, connecting, connected, blocks, texts>>

OnChangedLate ==
  /\ late
  /\ late' = FALSE
  /\ reloads' = reloads + 1
  /\ UNCHANGED <<drain, rx, transport, engine>>
  /\ UNCHANGED <<attach, main, connecting, connected, blocks, texts>>

-----------------------------------------------------------------------------
(***************************************************************************)
(* Jobs of the main actor while connected.                                 *)
(***************************************************************************)
Reload_WithoutHandle ==
  /\ main = "idle" /\ reloads > 0
  /\ reloads' = reloads - 1
  /\ blocks' = Blocks
  /\ UNCHANGED <<transport, engine, observer, attach, main, connecting, connected, texts>>

(* Without a handle there is nothing to show. *)
Reload ==
  /\ main = "idle" /\ reloads > 0
  /\ reloads' = reloads - 1
  /\ blocks' = IF connected THEN Blocks ELSE NoBlocks
  /\ UNCHANGED <<transport, engine, observer, attach, main, connecting, connected, texts>>

SetMode(m) ==
  /\ main = "idle" /\ connected
  /\ view_mode' = m
  /\ UNCHANGED <<transport, session, log, tail, flushing, observer, model>>

(* The text field is shown in Interact only.  send_text drops the text in  *)
(* Watch, and when the channel is full.                                    *)
SendText ==
  /\ main = "idle" /\ connected /\ view_mode = "Interact"
  /\ texts < MaxTexts
  /\ texts' = texts + 1
  /\ IF HasRoom THEN Send(Bytes(texts')) ELSE UNCHANGED transport
  /\ UNCHANGED <<engine, observer, attach, main, connecting, connected, blocks, reloads>>

(* close aborts both tasks.  An abort ends a task where it waits, so a     *)
(* call of on_changed still returns; the aborted pump runs no finish, and  *)
(* what it still does to its engine nobody sees.                           *)
Disconnect ==
  /\ main = "idle" /\ connected
  /\ connected' = FALSE /\ blocks' = NoBlocks
  /\ drain' = "none" /\ late' = (late \/ drain = "call")
  /\ IF pump \in Ended THEN UNCHANGED pump ELSE pump' = "lost"
  /\ in_tx' = FALSE /\ inq' = <<>> /\ outgoing' = <<>> /\ flushing' = FALSE
  /\ UNCHANGED <<wire, frames, queued, session, view_mode, log, tail, rx>>
  /\ UNCHANGED <<attach, main, connecting, reloads, texts>>

-----------------------------------------------------------------------------
Next ==
  \/ Connect \/ Attached \/ AttachFails \/ OnFailed \/ OnAttached \/ OnAttachedReload
  \/ PumpStep \/ Edit \/ FinishReturns
  \/ Recv \/ OnChanged \/ OnChangedLate
  \/ Reload \/ (\E m \in {"Watch", "Interact", "Raw"} : SetMode(m)) \/ SendText \/ Disconnect

Spec == Init /\ [][Next]_vars

(* The runtime polls a woken task, a callback returns, and the main actor  *)
(* gets to every job.  Nothing makes the peer send or the user act.        *)
Fairness ==
  /\ WF_vars(OnAttached) /\ WF_vars(OnAttachedReload)
  /\ WF_vars(Recv) /\ WF_vars(OnChanged) /\ WF_vars(Reload)

FairSpec == Spec /\ Fairness

-----------------------------------------------------------------------------
(* The app shows the session it is connected to, and nothing when it is    *)
(* not connected, whichever callbacks of an earlier session arrive         *)
(* (SessionModel.swift:65-67, 88-95, 103-105).                              *)
ShownIsCurrent ==
  IF connected THEN blocks.session = session /\ blocks.version =< log
               ELSE blocks = NoBlocks

(* When nothing is under way the app shows the newest document: no edit    *)
(* falls between attaching, subscribing and the first reload, or into a    *)
(* lag (lib.rs:268-278, SessionModel.swift:48-58).                         *)
NoChangeMissed ==
  connected /\ main = "idle" /\ reloads = 0 /\ drain = "recv" /\ rx = tail
    => blocks.version = log

(* As long as it stays connected, the app catches up again and again, also *)
(* with what the end of the session flushes (lib.rs:246-252, 270-275).     *)
AppCatchesUp == []<>(~connected \/ blocks = Blocks)
=============================================================================
