------------------------------ MODULE Transport ------------------------------
(***************************************************************************)
(* The duplex pump of an attached session (dd-client-session transport.rs, *)
(* over NoiseWriter and NoiseReader of dd-client-core).                    *)
(*                                                                         *)
(* The frontend queues messages on a bounded channel; the pump takes them  *)
(* one at a time, encrypts and sends them, and hands each frame from the   *)
(* peer to a callback.  One task does both: while it sends it receives     *)
(* nothing.  Encryption is left out: a frame arrives whole, in order, or   *)
(* ends the connection.                                                    *)
(***************************************************************************)
EXTENDS Integers, Sequences

CONSTANTS Byte,         \* what a message may carry
          QueueCap,     \* capacity of the input channel
          MaxFrames     \* bound on the frames the peer sends

ASSUME QueueCapAssumption == QueueCap \in Nat \ {0}

VARIABLES in_tx,        \* the frontend still holds the sending half
          inq,          \* the input channel
          pump,         \* what the pump task is doing, or how it ended
          outgoing,     \* the message being sent, or <<>>
          wire,         \* bytes the socket has taken, in order
          frames,       \* frames received
          queued        \* auxiliary: every message the channel accepted

transport == <<in_tx, inq, pump, outgoing, wire, frames, queued>>

Bytes(b) == [type |-> "Bytes", bytes |-> b]
BytesThenStop(b) == [type |-> "BytesThenStop", bytes |-> b]
Stop == [type |-> "Stop"]

Outbound ==
  [type : {"Bytes", "BytesThenStop"}, bytes : Byte] \cup [type : {"Stop"}]

Running == {"select", "send", "output"}
Ended == {"closed", "stopped", "lost"}

TransportInit ==
  /\ in_tx = TRUE
  /\ inq = <<>>
  /\ pump = "select"
  /\ outgoing = <<>>
  /\ wire = <<>>
  /\ frames = 0
  /\ queued = <<>>

-----------------------------------------------------------------------------
(***************************************************************************)
(* The frontend's side of the channel.                                     *)
(***************************************************************************)
HasRoom == in_tx /\ pump \in Running /\ Len(inq) < QueueCap

Send(msg) ==
  /\ HasRoom
  /\ inq' = Append(inq, msg)
  /\ queued' = Append(queued, msg)
  /\ UNCHANGED <<in_tx, pump, outgoing, wire, frames>>

DropSender ==
  /\ in_tx
  /\ in_tx' = FALSE
  /\ UNCHANGED <<inq, pump, outgoing, wire, frames, queued>>

-----------------------------------------------------------------------------
(***************************************************************************)
(* run.  When it returns the channel's receiver goes, with what is queued. *)
(***************************************************************************)
End(how) ==
  /\ pump' = how
  /\ inq' = <<>>
  /\ outgoing' = <<>>

TakeInput_KeepsHead ==
  /\ pump = "select"
  /\ inq # <<>>
  /\ IF Head(inq).type = "Stop" THEN End("stopped")
     ELSE /\ pump' = "send"
          /\ outgoing' = <<Head(inq)>>
          /\ UNCHANGED inq
  /\ UNCHANGED <<in_tx, wire, frames, queued>>

TakeInput ==
  /\ pump = "select"
  /\ inq # <<>>
  /\ IF Head(inq).type = "Stop" THEN End("stopped")
     ELSE /\ pump' = "send"
          /\ inq' = Tail(inq)
          /\ outgoing' = <<Head(inq)>>
  /\ UNCHANGED <<in_tx, wire, frames, queued>>

InputClosed_Eager ==
  /\ pump = "select"
  /\ ~in_tx
  /\ End("closed")
  /\ UNCHANGED <<in_tx, wire, frames, queued>>

InputClosed ==
  /\ pump = "select"
  /\ ~in_tx /\ inq = <<>>
  /\ End("closed")
  /\ UNCHANGED <<in_tx, wire, frames, queued>>

Sent_KeepsOpen ==
  /\ pump = "send"
  /\ wire' = Append(wire, outgoing[1].bytes)
  /\ pump' = "select" /\ outgoing' = <<>> /\ UNCHANGED inq
  /\ UNCHANGED <<in_tx, frames, queued>>

Sent ==
  /\ pump = "send"
  /\ wire' = Append(wire, outgoing[1].bytes)
  /\ IF outgoing[1].type = "BytesThenStop" THEN End("stopped")
     ELSE pump' = "select" /\ outgoing' = <<>> /\ UNCHANGED inq
  /\ UNCHANGED <<in_tx, frames, queued>>

(* The socket is broken, or the message too long for a Noise frame.        *)
SendFails ==
  /\ pump = "send"
  /\ End("lost")
  /\ UNCHANGED <<in_tx, wire, frames, queued>>

RecvFrame ==
  /\ pump = "select"
  /\ frames < MaxFrames
  /\ frames' = frames + 1
  /\ pump' = "output"
  /\ UNCHANGED <<in_tx, inq, outgoing, wire, queued>>

OutputReturns ==
  /\ pump = "output"
  /\ pump' = "select"
  /\ UNCHANGED <<in_tx, inq, outgoing, wire, frames, queued>>

(* recv() gives None or an error.                                          *)
SocketEnds ==
  /\ pump = "select"
  /\ End("lost")
  /\ UNCHANGED <<in_tx, wire, frames, queued>>

Pump ==
  \/ TakeInput \/ InputClosed \/ Sent \/ SendFails
  \/ RecvFrame \/ OutputReturns \/ SocketEnds

-----------------------------------------------------------------------------
(***************************************************************************)
(* The transport alone, under a frontend that queues anything.             *)
(***************************************************************************)
TransportNext == Pump \/ DropSender \/ \E msg \in Outbound : Send(msg)

TransportSpec == TransportInit /\ [][TransportNext]_transport

-----------------------------------------------------------------------------
(* Types of the channel and the pump (transport.rs:14-22, 38-60).          *)
TransportTypeOK ==
  /\ in_tx \in BOOLEAN
  /\ inq \in Seq(Outbound) /\ Len(inq) =< QueueCap
  /\ pump \in Running \cup Ended
  /\ outgoing \in Seq(Outbound)
  /\ pump = "send" => Len(outgoing) = 1 /\ outgoing[1].type # "Stop"
  /\ pump # "send" => outgoing = <<>>
  /\ wire \in Seq(Byte)
  /\ frames \in Nat
  /\ queued \in Seq(Outbound)

(* The peer gets what the frontend queued, all of it and in its order, up  *)
(* to where the connection ended (transport.rs:39-51).                     *)
WireIsPrefix ==
  /\ Len(wire) =< Len(queued)
  /\ \A i \in 1 .. Len(wire) :
       queued[i].type # "Stop" /\ wire[i] = queued[i].bytes

(* Nothing is sent after a message that stops the loop: it is the last one *)
(* to reach the wire (transport.rs:44-51).                                 *)
NothingAfterStop ==
  \A i \in 1 .. Len(wire) :
    queued[i].type = "BytesThenStop" => i = Len(wire) /\ pump = "stopped"

(* A session whose input was closed, and whose socket lived, has sent all  *)
(* that was queued (transport.rs:42-45).                                   *)
ClosedIsDrained == pump = "closed" => Len(wire) = Len(queued)
=============================================================================
