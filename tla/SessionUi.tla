------------------------------ MODULE SessionUi ------------------------------
(***************************************************************************)
(* The command line's session UI (session_ui.rs): Watch, Interact and Raw  *)
(* over one attachment.  Three tasks share the terminal, the view mode and *)
(* the input channel of Transport: the UI, the key reader of the           *)
(* structured views, and the pump's callback, which mirrors output to the  *)
(* terminal in Raw.                                                        *)
(*                                                                         *)
(* A keystroke is its class and its number in the order of typing.  Output *)
(* is represented by the numbers of its frames.  Scrolling and drawing     *)
(* change nothing here and are left out; so are window sizes, and the      *)
(* events that make a structured view redraw (SessionEngine).              *)
(***************************************************************************)
EXTENDS Transport, ChordParser

CONSTANTS KeyCap,       \* capacity of the key reader's channel
          MaxKeys       \* bound on the keys typed

ViewMode == {"Watch", "Interact", "Raw"}
ASSUME KeyCapAssumption == KeyCap \in Nat \ {0}

(* A message may carry any of the keys typed.                              *)
ASSUME MessageAssumption ==
  /\ MaxKeys \in Nat
  /\ \A n \in 0 .. MaxKeys : [1 .. n -> 1 .. MaxKeys] \subseteq Byte

VARIABLES
  mode,         \* the shared ViewMode
  ui,           \* where the UI task is
  flow,         \* what run_structured or run_raw returns: a mode, or "Quit"
  held,         \* actions the UI has in hand and not yet carried out
  armed,        \* the ChordParser's state
  reader,       \* where the key reader thread is
  read_key,     \* the key it is sending, or <<>>
  stop,         \* the flag that ends it
  key_q,        \* its channel
  tty_in,       \* keys typed and not yet read from the terminal
  typed,        \* how many keys were typed
  callback,     \* where the pump's callback is
  fed,          \* frames the engine has processed
  repaint,      \* the frames the screen held when Raw was entered
  tty_out,      \* the frames the terminal shows in Raw, in order
  overlap       \* auxiliary: a frame was being processed during the repaint

task == <<mode, ui, flow, held, armed>>
keys == <<reader, read_key, stop, key_q, tty_in, typed>>
output == <<callback, fed, repaint, tty_out, overlap>>
vars == <<transport, task, keys, output>>

Init ==
  /\ TransportInit
  /\ mode = "Watch"
  /\ ui = "enter" /\ flow = "Quit" /\ held = <<>> /\ armed = <<>>
  /\ reader = "gone" /\ read_key = <<>> /\ stop = FALSE
  /\ key_q = <<>> /\ tty_in = <<>> /\ typed = 0
  /\ callback = "feed" /\ fed = 0
  /\ repaint = 0 /\ tty_out = <<>> /\ overlap = FALSE

NextMode(m) ==
  CASE m = "Watch" -> "Interact" [] m = "Interact" -> "Raw" [] m = "Raw" -> "Watch"
PrevMode(m) ==
  CASE m = "Watch" -> "Raw" [] m = "Interact" -> "Watch" [] m = "Raw" -> "Interact"

Structured(m) == m # "Raw"

(* What crossterm's events become; a function key has no bytes.            *)
KeyToBytes(k) == IF k.key = "f1" THEN <<>> ELSE <<Forward(<<k>>)>>

Numbers(bytes) == [i \in 1 .. Len(bytes) |-> bytes[i].n]

-----------------------------------------------------------------------------
(***************************************************************************)
(* The orchestrator's loop.                                                *)
(***************************************************************************)
EnterStructured ==
  /\ ui = "enter"
  /\ Structured(mode)
  /\ ui' = "select"
  /\ reader' = "check" /\ stop' = FALSE
  /\ UNCHANGED <<mode, flow, held, armed, read_key, key_q, tty_in, typed>>
  /\ UNCHANGED <<transport, output>>

Return(how) ==
  /\ ui' = "return"
  /\ flow' = how

SwitchOrQuit_KeepsSender ==
  /\ ui = "return"
  /\ IF flow = "Quit" THEN ui' = "drain" /\ UNCHANGED mode
     ELSE mode' = flow /\ ui' = "enter"
  /\ UNCHANGED <<flow, held, armed, transport, keys, output>>

SwitchOrQuit ==
  /\ ui = "return"
  /\ IF flow = "Quit"
       THEN DropSender /\ ui' = "drain" /\ UNCHANGED mode
       ELSE mode' = flow /\ ui' = "enter" /\ UNCHANGED transport
  /\ UNCHANGED <<flow, held, armed, keys, output>>

PumpJoined ==
  /\ ui = "drain"
  /\ pump \in Ended
  /\ ui' = "done"
  /\ UNCHANGED <<mode, flow, held, armed, transport, keys, output>>

-----------------------------------------------------------------------------
(***************************************************************************)
(* run_structured: handle one key, or leave.                               *)
(***************************************************************************)
Quits(k) == k.key = "ctrl_c" \/ (mode = "Watch" /\ k.key = "q")

Leave(how) ==
  /\ ui' = "leave"
  /\ flow' = how
  /\ UNCHANGED stop

TakeKey ==
  /\ ui = "select"
  /\ key_q # <<>>
  /\ key_q' = Tail(key_q)
  /\ UNCHANGED <<armed, reader, read_key, tty_in, typed>>
  /\ UNCHANGED <<transport, output>>

QuitKey ==
  /\ TakeKey
  /\ Quits(Head(key_q))
  /\ Leave("Quit")
  /\ UNCHANGED <<mode, held>>

CycleKey ==
  /\ TakeKey
  /\ Head(key_q).key \in {TabKey, "backtab"}
  /\ mode' = IF Head(key_q).key = TabKey THEN NextMode(mode) ELSE PrevMode(mode)
  /\ IF Structured(mode') THEN UNCHANGED <<ui, flow, stop>> ELSE Leave(mode')
  /\ UNCHANGED held

Other(k) == ~Quits(k) /\ k.key \notin {TabKey, "backtab"}

(* Watch scrolls, or does nothing.                                         *)
IgnoreKey ==
  /\ TakeKey
  /\ mode = "Watch" /\ Other(Head(key_q))
  /\ UNCHANGED <<mode, ui, flow, held, stop>>

ForwardKey_Everywhere ==
  /\ TakeKey
  /\ Other(Head(key_q))
  /\ held' = KeyToBytes(Head(key_q))
  /\ ui' = IF held' = <<>> THEN "select" ELSE "act"
  /\ UNCHANGED <<mode, flow, stop>>

ForwardKey ==
  /\ TakeKey
  /\ mode = "Interact" /\ Other(Head(key_q))
  /\ held' = KeyToBytes(Head(key_q))
  /\ ui' = IF held' = <<>> THEN "select" ELSE "act"
  /\ UNCHANGED <<mode, flow, stop>>

(* Drawing failed, or the key reader is gone and its channel empty.        *)
StructuredFails ==
  /\ ui = "select"
  /\ Leave("Quit")
  /\ UNCHANGED <<mode, held, armed, reader, read_key, key_q, tty_in, typed>>
  /\ UNCHANGED <<transport, output>>

(* The terminal is restored; until then the reader goes on reading.        *)
StopReader ==
  /\ ui = "leave"
  /\ ~stop
  /\ stop' = TRUE
  /\ UNCHANGED <<task, reader, read_key, key_q, tty_in, typed, transport, output>>

ReaderJoined_NotAwaited ==
  /\ ui = "leave" /\ stop
  /\ ui' = "return"
  /\ key_q' = <<>>
  /\ UNCHANGED <<mode, flow, held, armed, reader, read_key, stop, tty_in, typed>>
  /\ UNCHANGED <<transport, output>>

(* The reader thread is awaited; its channel goes only when the function   *)
(* returns.                                                                *)
ReaderJoined ==
  /\ ui = "leave" /\ stop
  /\ reader = "gone"
  /\ ui' = "return"
  /\ key_q' = <<>>
  /\ UNCHANGED <<mode, flow, held, armed, reader, read_key, stop, tty_in, typed>>
  /\ UNCHANGED <<transport, output>>

-----------------------------------------------------------------------------
(***************************************************************************)
(* The key reader thread.                                                  *)
(***************************************************************************)
ReaderChecks ==
  /\ reader = "check"
  /\ reader' = IF stop THEN "gone" ELSE "poll"
  /\ UNCHANGED <<read_key, stop, key_q, tty_in, typed, transport, task, output>>

(* poll timed out.                                                         *)
ReaderTimesOut ==
  /\ reader = "poll"
  /\ reader' = "check"
  /\ UNCHANGED <<read_key, stop, key_q, tty_in, typed, transport, task, output>>

ReaderReads ==
  /\ reader = "poll"
  /\ tty_in # <<>>
  /\ read_key' = <<Head(tty_in)>>
  /\ tty_in' = Tail(tty_in)
  /\ reader' = "send"
  /\ UNCHANGED <<stop, key_q, typed, transport, task, output>>

ReaderSends ==
  /\ reader = "send"
  /\ Len(key_q) < KeyCap
  /\ key_q' = key_q \o read_key
  /\ read_key' = <<>>
  /\ reader' = "check"
  /\ UNCHANGED <<stop, tty_in, typed, transport, task, output>>

ReaderFails ==
  /\ reader = "poll"
  /\ reader' = "gone"
  /\ UNCHANGED <<read_key, stop, key_q, tty_in, typed, transport, task, output>>

-----------------------------------------------------------------------------
(***************************************************************************)
(* run_raw: clear and repaint the terminal, then read from it.             *)
(***************************************************************************)
EnterRaw ==
  /\ ui = "enter"
  /\ ~Structured(mode)
  /\ ui' = "repaint"
  /\ armed' = <<>>
  /\ repaint' = fed
  /\ overlap' = (callback # "feed")
  /\ UNCHANGED <<mode, flow, held, callback, fed, tty_out, transport, keys>>

(* RawMode::enter failed.                                                  *)
RawFails ==
  /\ ui = "enter"
  /\ ~Structured(mode)
  /\ Return("Quit")
  /\ UNCHANGED <<mode, held, armed, transport, keys, output>>

Repaint_KeepsOld ==
  /\ ui = "repaint"
  /\ ui' = "read"
  /\ tty_out' = tty_out \o [i \in 1 .. repaint |-> i]
  /\ overlap' = (overlap \/ fed # repaint)
  /\ UNCHANGED <<mode, flow, held, armed, callback, fed, repaint, transport, keys>>

(* The bytes that reproduce the screen clear the terminal first.           *)
Repaint ==
  /\ ui = "repaint"
  /\ ui' = "read"
  /\ tty_out' = [i \in 1 .. repaint |-> i]
  /\ overlap' = (overlap \/ fed # repaint)
  /\ UNCHANGED <<mode, flow, held, armed, callback, fed, repaint, transport, keys>>

ReadStdin ==
  /\ ui = "read"
  /\ \E n \in 1 .. Len(tty_in) :
       LET p == Feed(armed, SubSeq(tty_in, 1, n))
       IN /\ tty_in' = SubSeq(tty_in, n + 1, Len(tty_in))
          /\ armed' = p.armed
          /\ held' = p.actions
          /\ ui' = IF p.actions = <<>> THEN "read" ELSE "act"
  /\ UNCHANGED <<mode, flow, reader, read_key, stop, key_q, typed, transport, output>>

StdinEnds ==
  /\ ui = "read"
  /\ Return("Quit")
  /\ UNCHANGED <<mode, held, armed, transport, keys, output>>

-----------------------------------------------------------------------------
(***************************************************************************)
(* The UI carries out the first action in hand.  It waits for room in the  *)
(* input channel, and quits once the pump has ended.                       *)
(***************************************************************************)
Acting(type) == ui = "act" /\ held[1].type = type

ForwardBytes ==
  /\ Acting("Forward")
  /\ Send(Bytes(Numbers(held[1].bytes)))
  /\ held' = Tail(held)
  /\ ui' = IF held' # <<>> THEN "act" ELSE IF Structured(mode) THEN "select" ELSE "read"
  /\ UNCHANGED <<mode, flow, armed, keys, output>>

ForwardFails ==
  /\ Acting("Forward")
  /\ pump \in Ended
  /\ held' = <<>>
  /\ IF Structured(mode)
       THEN Leave("Quit") /\ UNCHANGED <<reader, read_key, key_q, tty_in, typed>>
       ELSE Return("Quit") /\ UNCHANGED keys
  /\ UNCHANGED <<mode, armed, transport, output>>

ForwardEof ==
  /\ Acting("ForwardThenStop")
  /\ IF pump \in Ended THEN UNCHANGED transport
     ELSE Send(BytesThenStop(Numbers(held[1].bytes)))
  /\ held' = <<>>
  /\ Return("Quit")
  /\ UNCHANGED <<mode, armed, keys, output>>

(* What the same read held behind a chord is dropped.                      *)
LeaveRaw ==
  /\ Acting("ExitToStructured")
  /\ held' = <<>>
  /\ Return("Watch")
  /\ UNCHANGED <<mode, armed, transport, keys, output>>

DetachRaw ==
  /\ Acting("Detach")
  /\ held' = <<>>
  /\ Return("Quit")
  /\ UNCHANGED <<mode, armed, transport, keys, output>>

-----------------------------------------------------------------------------
(***************************************************************************)
(* The pump, with the callback run gives it.                               *)
(***************************************************************************)
PumpStep ==
  /\ TakeInput \/ InputClosed \/ Sent \/ SendFails \/ RecvFrame \/ SocketEnds
  /\ UNCHANGED <<task, keys, output>>

FeedEngine ==
  /\ pump = "output" /\ callback = "feed"
  /\ callback' = "check"
  /\ fed' = fed + 1
  /\ UNCHANGED <<repaint, tty_out, overlap, transport, task, keys>>

(* The mode's lock is released before the branch it guards.                *)
CheckMode ==
  /\ callback = "check"
  /\ IF mode = "Raw" THEN callback' = "write" /\ UNCHANGED transport
     ELSE callback' = "feed" /\ OutputReturns
  /\ UNCHANGED <<fed, repaint, tty_out, overlap, task, keys>>

MirrorFrame ==
  /\ callback = "write"
  /\ callback' = "feed"
  /\ tty_out' = Append(tty_out, fed)
  /\ OutputReturns
  /\ UNCHANGED <<fed, repaint, overlap, task, keys>>

Type(k) ==
  /\ typed < MaxKeys
  /\ typed' = typed + 1
  /\ tty_in' = Append(tty_in, [key |-> k, n |-> typed + 1])
  /\ UNCHANGED <<reader, read_key, stop, key_q, transport, task, output>>

-----------------------------------------------------------------------------
Ui ==
  \/ EnterStructured \/ SwitchOrQuit \/ PumpJoined
  \/ QuitKey \/ CycleKey \/ IgnoreKey \/ ForwardKey \/ StructuredFails
  \/ StopReader \/ ReaderJoined
  \/ EnterRaw \/ RawFails \/ Repaint \/ ReadStdin \/ StdinEnds
  \/ ForwardBytes \/ ForwardFails \/ ForwardEof \/ LeaveRaw \/ DetachRaw

KeyReader ==
  ReaderChecks \/ ReaderTimesOut \/ ReaderReads \/ ReaderSends \/ ReaderFails

Callback == FeedEngine \/ CheckMode \/ MirrorFrame

Next == Ui \/ KeyReader \/ PumpStep \/ Callback \/ \E k \in Key : Type(k)

Spec == Init /\ [][Next]_vars

(* A task that can go on does.  select! picks at random among its ready    *)
(* branches, so a peer that keeps sending does not keep the pump from its  *)
(* input.  The peer, or the socket's end, lets each send return.  Nothing  *)
(* makes a user type or quit.                                              *)
Fairness ==
  /\ SF_vars(TakeInput /\ UNCHANGED <<task, keys, output>>)
  /\ SF_vars(InputClosed /\ UNCHANGED <<task, keys, output>>)
  /\ WF_vars((Sent \/ SendFails) /\ UNCHANGED <<task, keys, output>>)
  /\ WF_vars(Callback)
  /\ WF_vars(ReaderChecks) /\ WF_vars(ReaderTimesOut) /\ WF_vars(ReaderSends)
  /\ WF_vars(StopReader) /\ WF_vars(ReaderJoined)
  /\ WF_vars(SwitchOrQuit) /\ WF_vars(PumpJoined)

FairSpec == Spec /\ Fairness

-----------------------------------------------------------------------------
(* Types, and where each of the three tasks may be (session_ui.rs:41-302). *)
TypeOK ==
  /\ TransportTypeOK
  /\ mode \in ViewMode
  /\ ui \in {"enter", "select", "act", "leave", "return", "repaint", "read", "drain", "done"}
  /\ flow \in ViewMode \cup {"Quit"}
  /\ reader \in {"check", "poll", "send", "gone"}
  /\ ui \in {"select", "leave"} => ~(reader = "gone" /\ read_key # <<>>)
  /\ ui \in {"return", "read", "repaint", "drain", "done"} => reader = "gone"
  /\ Len(key_q) =< KeyCap
  /\ callback \in {"feed", "check", "write"}
  /\ fed \in {frames, frames - 1}

FlatBytes(msgs) ==
  FlattenSeq([i \in 1 .. Len(msgs) |-> IF msgs[i].type = "Stop" THEN <<>> ELSE msgs[i].bytes])

(* Keystrokes reach the peer in the order they were typed, none twice,     *)
(* whatever regime read them and however often the regimes changed         *)
(* (session_ui.rs:88-100, 111-129, 282-302).                               *)
KeysInOrder ==
  LET passed == FlattenSeq(wire) \o FlatBytes(outgoing \o inq)
  IN \A i, j \in 1 .. Len(passed) : i < j => passed[i] < passed[j]

(* While the session is watched nothing is queued for the peer             *)
(* (mode.rs:9-16): neither a key nor what was in hand when Watch began.    *)
WatchQueuesNothing == [][queued' # queued => mode # "Watch"]_vars

(* A client that ends by itself, by a key, a chord, EOF or a failure of    *)
(* its terminal, has delivered all the input it accepted, unless the       *)
(* socket was lost (session_ui.rs:97-99).                                  *)
QuitDelivers ==
  ui = "done" /\ pump # "lost" => FlattenSeq(wire) = FlatBytes(queued)

(* In Raw the terminal shows every frame exactly once, in order, if no     *)
(* frame was being processed while it was repainted (session_ui.rs:71-77,  *)
(* 268-275).                                                               *)
RawShowsFrames ==
  ui \in {"read", "act"} /\ mode = "Raw" /\ pump # "output" /\ ~overlap
    => tty_out = [i \in 1 .. fed |-> i]

(* Having quit, the client ends: the pump sends what is queued and sees    *)
(* that its input is closed (session_ui.rs:97-99, transport.rs:44-47).     *)
QuitEnds == ui = "drain" ~> ui = "done"

-----------------------------------------------------------------------------
(* "poll so it exits promptly on quit" (session_ui.rs:111)                 *)
ReaderExitsOnQuit == ui = "leave" ~> ui # "leave"
=============================================================================
